---- MODULE Spec2Model ----
(***************************************************************************)
(* A model of streamlit_app.py: one run of the script, top to bottom.      *)
(*   credentials -> client -> acquire -> load -> filter -> button ->       *)
(*   gerar_relatorio (one loop iteration per priority lead).               *)
(* Text the program computes on (Registro, Atendente) is a sequence of     *)
(* one-character strings; text it only passes along (Nome do Atendido, the *)
(* collaborator's answer) is an atomic string.  A timestamp is a number of *)
(* ticks, TicksPerDay to the day, day 0 being Monday 2024-12-30.           *)
(* pandas is modelled with its 2.x semantics (object columns).             *)
(***************************************************************************)
EXTENDS Integers, Sequences, FiniteSets

\* ------------------------------------------------------------------ bounds
MaxRows == 2        \* rows of a spreadsheet
TicksPerDay == 2    \* resolution of the time of day
NumWeeks == 2       \* calendar window of the business-day specification

\* ------------------------------------------------------------ option type
None == [some |-> FALSE, v |-> <<>>]
Some(x) == [some |-> TRUE, v |-> x]

\* ------------------------------------------------------------------ cells
\* A cell of the spreadsheet as read_excel returns it: NaN for an empty
\* cell, a timestamp, or text.
NaN == [kind |-> "NaN", t |-> 0, s |-> <<>>]
NaT == [kind |-> "NaT", t |-> 0, s |-> <<>>]
TsCell(t) == [kind |-> "ts", t |-> t, s |-> <<>>]
StrCell(s) == [kind |-> "str", t |-> 0, s |-> s]

isna(c) == c.kind \in {"NaN", "NaT"}
notna(c) == ~isna(c)

\* ---------------------------------------------------------------- strings
UpperLetters ==
  <<"A","B","C","D","E","F","G","H","I","J","K","L","M","N","O","P","Q","R",
    "S","T","U","V","W","X","Y","Z","Ç","Õ","Ã","Ê">>
LowerLetters ==
  <<"a","b","c","d","e","f","g","h","i","j","k","l","m","n","o","p","q","r",
    "s","t","u","v","w","x","y","z","ç","õ","ã","ê">>

\* re.IGNORECASE compares characters up to case.
casefold(c) ==
  IF \E k \in 1..Len(UpperLetters) : UpperLetters[k] = c
  THEN LowerLetters[CHOOSE k \in 1..Len(UpperLetters) : UpperLetters[k] = c]
  ELSE c

\* re.search of a literal pattern p in s, case-insensitively.
search_literal(p, s) ==
  \E off \in 0..(Len(s) - Len(p)) :
    \A k \in 1..Len(p) : casefold(s[off + k]) = casefold(p[k])

\* The alternatives of the regular expression `keywords`, in its order.
keywords ==
  << <<"r","e","p","i","q","u","e">>,
     <<"n","o","v","o"," ","r","e","p","i","q","u","e">>,
     <<"o","b","j","e","ç","ã","o">>,
     <<"o","b","j","e","ç","õ","e","s">>,
     <<"u","r","g","e","n","t","e">>,
     <<"f","e","c","h","a","r">>,
     <<"m","a","t","r","i","c","u","l","a">>,
     <<"i","n","t","e","r","e","s","s","a","d","o">>,
     <<"p","r","o","p","o","s","t","a">> >>

\* Series.str.contains(keywords, case=False, na=False) on one value.
str_contains(c) ==
  IF c.kind # "str" THEN FALSE
  ELSE \E a \in 1..Len(keywords) : search_literal(keywords[a], c.s)

Whitespace == {" ", "\t", "\n"}

\* str.split() with no separator: the maximal runs of non-whitespace.
RECURSIVE split(_)
split(s) ==
  IF s = <<>> THEN <<>>
  ELSE IF Head(s) \in Whitespace THEN split(Tail(s))
  ELSE LET rest == split(Tail(s))
       IN  IF Len(s) > 1 /\ s[2] \notin Whitespace
           THEN <<(<<Head(s)>> \o Head(rest))>> \o Tail(rest)
           ELSE <<(<<Head(s)>>)>> \o rest

\* ------------------------------------------------------------------ dates
DayOf(t) == t \div TicksPerDay
TickOf(t) == t % TicksPerDay
weekday(d) == d % 7      \* 0 = Monday ... 5 = Saturday, 6 = Sunday

\* Timestamp.strftime('%Y-%m-%d'), as <<year, month, day>>; day 0 is
\* 2024-12-30 and the window ends in January 2025.
strftime(t) ==
  LET d == DayOf(t)
  IN  IF d <= 1 THEN <<2024, 12, 30 + d>> ELSE <<2025, 1, d - 1>>

\* BusinessDay without the roll of a weekend start
BusinessDay_apply_noroll(n, t) ==
  LET wday == weekday(DayOf(t))
      weeks == n \div 5
      n2 == n - 5 * weeks
      days == IF n2 = 0 /\ wday > 4 THEN 4 - wday
              ELSE IF wday > 4 THEN (7 - wday) + (n2 - 1)
              ELSE IF wday + n2 <= 4 THEN n2
              ELSE n2 + 2
  IN  t + (7 * weeks + days) * TicksPerDay

\* pandas.tseries.offsets.BusinessDay(n) applied to a timestamp (the offset's
\* _apply): whole weeks first, a weekend start rolled, then the remaining days
\* with the weekend skipped.  The time of day is kept.
BusinessDay_apply(n, t) ==
  LET wday == weekday(DayOf(t))
      weeks == n \div 5
      n1 == IF n <= 0 /\ wday > 4 THEN n + 1 ELSE n
      n2 == n1 - 5 * weeks
      days == IF n2 = 0 /\ wday > 4 THEN 4 - wday
              ELSE IF wday > 4 THEN (7 - wday) + (n2 - 1)
              ELSE IF wday + n2 <= 4 THEN n2
              ELSE n2 + 2
  IN  t + (7 * weeks + days) * TicksPerDay

BusinessDays == 2

\* two_bd_ago = pd.Timestamp.now() - BusinessDay(2)
two_bd_ago_of(now) == BusinessDay_apply(0 - BusinessDays, now)

\* ------------------------------------------------------------ spreadsheet
required_cols == <<"Data do Atendimento", "Nome do Atendido", "Atendente", "Registro">>
RequiredSet == {required_cols[k] : k \in 1..Len(required_cols)}

Names == <<"Josiele Pereira", "Caio Souza", "Bia Reis", "Davi Luz">>

Jan01 == 2 * TicksPerDay    \* 2025-01-01 00:00, a Wednesday
Jan03 == 4 * TicksPerDay    \* 2025-01-03 00:00, a Friday

DataCells == {NaN, StrCell(<<"?">>), TsCell(Jan01), TsCell(Jan03)}
AtendenteCells ==
  {NaN, StrCell(<<"A","n","a"," ","L","i","m","a">>), StrCell(<<" ">>)}
RegistroCells ==
  {NaN, StrCell(<<"o","k">>), StrCell(<<"U","R","G","E","N","T","E">>)}

\* line: the spreadsheet row the record was read from (kept for reference,
\* the program has no such field); index: the DataFrame's index label.
Row(line, d, a, r) ==
  [line |-> line, index |-> line - 1, data |-> d, nome |-> Names[line],
   atendente |-> a, registro |-> r]

NoBytes == [kind |-> "None", columns |-> {}, rows |-> <<>>]
Garbage == [kind |-> "garbage", columns |-> {}, rows |-> <<>>]
Sheet(cols, rows) == [kind |-> "xlsx", columns |-> cols, rows |-> rows]

\* The cells of one row: timestamp, agent name, notes.
RowCells == DataCells \X AtendenteCells \X RegistroCells

\* The spreadsheet with the four required columns and rows f[1] .. f[n].
FullSheetOf(n, f) ==
  Sheet(RequiredSet, [k \in 1..n |-> Row(k, f[k][1], f[k][2], f[k][3])])

\* Spreadsheets lacking one or more required columns; the cells of an absent
\* column are never read.
PartialSheets ==
  {Sheet(cs, <<Row(1, TsCell(Jan01), StrCell(<<"A","n","a">>), StrCell(<<"o","k">>))>>) :
     cs \in (SUBSET RequiredSet) \ {RequiredSet}}

\* ----------------------------------------------------------------- pandas
\* pd.to_datetime(errors='coerce') on one value; the text cells of the model
\* hold no date.
to_datetime(c) == IF c.kind = "ts" THEN c ELSE NaT

\* df['Data do Atendimento'] = pd.to_datetime(df['Data do Atendimento'], ...)
to_datetime_col(rows) ==
  [k \in 1..Len(rows) |-> [rows[k] EXCEPT !.data = to_datetime(@)]]

\* a dropna that drops nothing
dropna_keep(rows) == rows

\* df.dropna(subset=['Data do Atendimento'], inplace=True)
dropna(rows) == SelectSeq(rows, LAMBDA r : notna(r.data))

\* Series.astype(str) on one value of an object column: str(nan) is "nan".
astype_str(c) == IF isna(c) THEN StrCell(<<"n","a","n">>) ELSE c

\* Series.fillna(value) on one value
fillna(c, value) == IF isna(c) THEN StrCell(value) ELSE c

Sentinel == <<"N","ã","o"," ","I","n","f","o","r","m","a","d","o">>
\* df["Registro"] = df["Registro"].astype(str).fillna("")
fill_registro(rows) ==
  [k \in 1..Len(rows) |-> [rows[k] EXCEPT !.registro = fillna(astype_str(@), <<>>)]]
\* df["Atendente"] = df["Atendente"].astype(str).fillna("Não Informado")
fill_atendente(rows) ==
  [k \in 1..Len(rows) |-> [rows[k] EXCEPT !.atendente = fillna(astype_str(@), Sentinel)]]

\* The try block of section 4 (lines 76-81): the exception it raises, if any,
\* and the table it leaves.
try_load(b) ==
  IF b.kind # "xlsx" THEN [raised |-> "BadZipFile", df |-> <<>>]
  ELSE IF "Data do Atendimento" \notin b.columns
  THEN [raised |-> "KeyError: Data do Atendimento", df |-> <<>>]
  ELSE IF "Registro" \notin b.columns
  THEN [raised |-> "KeyError: Registro", df |-> <<>>]
  ELSE IF "Atendente" \notin b.columns
  THEN [raised |-> "KeyError: Atendente", df |-> <<>>]
  ELSE [raised |-> "",
        df |-> fill_atendente(fill_registro(dropna(to_datetime_col(b.rows))))]

\* a required-columns check that finds nothing missing
missing_none(b) == <<>>

\* missing = [c for c in required_cols if c not in df.columns]
missing_of(b) == SelectSeq(required_cols, LAMBDA c : c \notin b.columns)

\* ----------------------------------------------------------------- filter
mask_kw(r) == str_contains(r.registro)
mask_date(r, thr) == r.data.kind = "ts" /\ r.data.t <= thr

\* DataFrame.reset_index(drop=True)
reset_index(rows) == [k \in 1..Len(rows) |-> [rows[k] EXCEPT !.index = k - 1]]

\* the two masks applied one after the other and concatenated
df_priority_concat(rows, thr) ==
  reset_index(SelectSeq(rows, LAMBDA r : mask_kw(r)) \o
              SelectSeq(rows, LAMBDA r : mask_date(r, thr)))

\* the keyword rows ahead of the rows selected by date alone
df_priority_kwfirst(rows, thr) ==
  reset_index(SelectSeq(rows, LAMBDA r : mask_kw(r)) \o
              SelectSeq(rows, LAMBDA r : mask_date(r, thr) /\ ~mask_kw(r)))

\* df[mask_kw | mask_date].reset_index(drop=True)
df_priority_of(rows, thr) ==
  reset_index(SelectSeq(rows, LAMBDA r : mask_kw(r) \/ mask_date(r, thr)))

\* -------------------------------------------------------- gerar_relatorio
NA == <<"N","/","A">>
NoDate == <<0, 0, 0>>       \* stands for the text N/A in a date position

\* str(row["Atendente"]).split()[0] raises IndexError when split() is empty.
atendente_raises(row) == notna(row.atendente) /\ split(row.atendente.s) = <<>>

\* atendente = str(row["Atendente"]).split()[0] if pd.notna(...) else "N/A"
atendente_of(row) ==
  IF notna(row.atendente) THEN split(row.atendente.s)[1] ELSE NA

\* registro_str = str(row["Registro"]) if pd.notna(row["Registro"]) else ""
registro_str_of(row) == IF notna(row.registro) THEN row.registro.s ELSE <<>>

data_of(row) == IF notna(row.data) THEN strftime(row.data.t) ELSE NoDate

\* user_content, by its interpolated fields
user_content_of(row) ==
  [nome |-> row.nome, atendente |-> atendente_of(row), data |-> data_of(row),
   registro |-> registro_str_of(row)]

\* A section of the report: the collaborator's text, or the fallback template
\* with its interpolated fields.
generated(text) ==
  [kind |-> "generated", text |-> text, nome |-> "", atendente |-> <<>>,
   data |-> NoDate, motivo |-> "", sugestao |-> ""]
fallback_of(row) ==
  [kind |-> "fallback", text |-> "", nome |-> row.nome,
   atendente |-> atendente_of(row), data |-> data_of(row),
   motivo |-> "Erro ao processar", sugestao |-> "Erro na geração"]

\* "".join(relatorio_completo): the sections in list order
join(sections) == sections

GenTexts == {"secao A", "secao B"}

\* ------------------------------------------------------------------ state
VARIABLES
  pc,                 \* position of the script
  clock,              \* what pd.Timestamp.now() returns
  secrets, environ,   \* the two credential sources, once read
  api_key,
  acquired,           \* how section 3 ended
  excel_bytes,
  df,
  errors,             \* the st.error calls, in order
  halted_at,          \* the section that stopped the run
  two_bd_ago,
  df_priority,
  i,                  \* position of gerar_relatorio's loop, from 1
  relatorio_completo,
  calls,              \* the requests sent to the collaborator, in order
  outcomes,           \* what the collaborator answered, in order
  relatorio

vars == <<pc, clock, secrets, environ, api_key, acquired, excel_bytes, df, errors,
          halted_at, two_bd_ago, df_priority, i, relatorio_completo, calls,
          outcomes, relatorio>>

Err(kind, detail, cols) == [kind |-> kind, detail |-> detail, cols |-> cols]

Day(d, tick) == d * TicksPerDay + tick
\* Monday 2025-01-06 at the second tick, and Saturday 2025-01-11 at the first
NowSet == {Day(7, 1), Day(12, 0)}

InitRest ==
  /\ secrets = "unread"
  /\ environ = "unread"
  /\ api_key = "None"
  /\ acquired = ""
  /\ excel_bytes = NoBytes
  /\ df = <<>>
  /\ errors = <<>>
  /\ halted_at = ""
  /\ two_bd_ago = 0
  /\ df_priority = None
  /\ i = 0
  /\ relatorio_completo = <<>>
  /\ calls = <<>>
  /\ outcomes = <<>>
  /\ relatorio = None

Init ==
  /\ pc = "credentials"
  /\ clock \in NowSet
  /\ InitRest

\* st.stop() in section `at`
Stop(at) == pc' = "stopped" /\ halted_at' = at
\* an exception nothing catches, raised in section `at`
Crash(at) == pc' = "crashed" /\ halted_at' = at

\* Section 2, lines 27-44.  Only KeyError is caught: st.secrets raises a
\* FileNotFoundError when there is no secrets file at all.
LoadApiKey ==
  /\ pc = "credentials"
  /\ \E sec \in {"no_file", "absent", "set"}, env \in {"absent", "empty", "set"} :
       /\ secrets' = sec
       /\ \/ /\ sec = "set"
             /\ api_key' = "sk-secrets"
             /\ pc' = "client"
             /\ UNCHANGED <<environ, errors, halted_at>>
          \/ /\ sec = "no_file"
             /\ Crash("credentials")
             /\ UNCHANGED <<environ, api_key, errors>>
          \/ /\ sec = "absent"
             /\ environ' = env
             /\ IF env = "set"
                THEN /\ api_key' = "sk-env"
                     /\ pc' = "client"
                     /\ UNCHANGED <<errors, halted_at>>
                ELSE /\ api_key' = IF env = "empty" THEN "" ELSE "None"
                     /\ errors' = Append(errors, Err("no_key", "", <<>>))
                     /\ Stop("credentials")
  /\ UNCHANGED <<clock, acquired, excel_bytes, df, two_bd_ago, df_priority, i,
                 relatorio_completo, calls, outcomes, relatorio>>

\* Section 2, lines 46-50
InitClient ==
  /\ pc = "client"
  /\ \E ok \in BOOLEAN :
       IF ok
       THEN pc' = "acquire" /\ UNCHANGED <<errors, halted_at>>
       ELSE /\ errors' = Append(errors, Err("client", "", <<>>))
            /\ Stop("client")
  /\ UNCHANGED <<clock, secrets, environ, api_key, acquired, excel_bytes, df,
                 two_bd_ago, df_priority, i, relatorio_completo, calls, outcomes,
                 relatorio>>

\* Section 3, lines 52-73: upload or download, then the check for no bytes.
AcquireInput ==
  /\ pc = "acquire"
  /\ \/ \E how \in {"no_file", "no_url"} :
          /\ acquired' = how
          /\ Stop("acquire")
          /\ UNCHANGED <<excel_bytes, errors>>
     \/ /\ acquired' = "fetch_failed"
        /\ errors' = Append(errors, Err("download", "", <<>>))
        /\ Stop("acquire")
        /\ UNCHANGED excel_bytes
     \/ \E how \in {"upload", "url"} :
          /\ acquired' = "bytes"
          /\ \/ excel_bytes' \in PartialSheets \cup {Garbage}
             \/ \E n \in 0..MaxRows :
                  \E f \in [1..n -> RowCells] : excel_bytes' = FullSheetOf(n, f)
          /\ pc' = "load"
          /\ UNCHANGED <<errors, halted_at>>
  /\ UNCHANGED <<clock, secrets, environ, api_key, df, two_bd_ago, df_priority, i,
                 relatorio_completo, calls, outcomes, relatorio>>

\* Section 4, lines 75-90: the try block, then the required-columns check.
LoadExcel ==
  /\ pc = "load"
  /\ LET got == try_load(excel_bytes)
         missing == missing_of(excel_bytes)
     IN  IF got.raised # ""
         THEN /\ errors' = Append(errors, Err("excel", got.raised, <<>>))
              /\ Stop("load")
              /\ UNCHANGED df
         ELSE /\ df' = got.df
              /\ IF missing # <<>>
                 THEN /\ errors' = Append(errors, Err("missing_cols", "", missing))
                      /\ Stop("load")
                 ELSE pc' = "filter" /\ UNCHANGED <<errors, halted_at>>
  /\ UNCHANGED <<clock, secrets, environ, api_key, acquired, excel_bytes,
                 two_bd_ago, df_priority, i, relatorio_completo, calls, outcomes,
                 relatorio>>

\* Section 5, lines 92-104
Filter ==
  /\ pc = "filter"
  /\ two_bd_ago' = two_bd_ago_of(clock)
  /\ df_priority' = Some(df_priority_of(df, two_bd_ago'))
  /\ IF df_priority'.v = <<>>
     THEN Stop("filter")
     ELSE pc' = "button" /\ UNCHANGED halted_at
  /\ UNCHANGED <<clock, secrets, environ, api_key, acquired, excel_bytes, df,
                 errors, i, relatorio_completo, calls, outcomes, relatorio>>

\* Section 7, line 212, and lines 159-160 when the button was pressed
Button ==
  /\ pc = "button"
  /\ \E pressed \in BOOLEAN :
       IF pressed
       THEN pc' = "gerar" /\ i' = 1 /\ relatorio_completo' = <<>>
       ELSE pc' = "end" /\ UNCHANGED <<i, relatorio_completo>>
  /\ UNCHANGED <<clock, secrets, environ, api_key, acquired, excel_bytes, df,
                 errors, halted_at, two_bd_ago, df_priority, calls, outcomes,
                 relatorio>>

\* Lines 163-188: the next row, its payload, the request sent.
NextLead ==
  /\ pc = "gerar"
  /\ i <= Len(df_priority.v)
  /\ LET row == df_priority.v[i]
     IN  IF atendente_raises(row)
         THEN Crash("gerar_relatorio") /\ UNCHANGED calls
         ELSE /\ calls' = Append(calls, user_content_of(row))
              /\ pc' = "awaiting"
              /\ UNCHANGED halted_at
  /\ UNCHANGED <<clock, secrets, environ, api_key, acquired, excel_bytes, df,
                 errors, two_bd_ago, df_priority, i, relatorio_completo, outcomes,
                 relatorio>>

\* Lines 180-190: the collaborator answers.
CallSucceeds ==
  /\ pc = "awaiting"
  /\ \E text \in GenTexts :
       /\ relatorio_completo' = Append(relatorio_completo, generated(text))
       /\ outcomes' = Append(outcomes, [ok |-> TRUE, text |-> text])
  /\ i' = i + 1
  /\ pc' = "gerar"
  /\ UNCHANGED <<clock, secrets, environ, api_key, acquired, excel_bytes, df,
                 errors, halted_at, two_bd_ago, df_priority, calls, relatorio>>

\* Lines 192-203: the call raises.
CallFails ==
  /\ pc = "awaiting"
  /\ errors' = Append(errors, Err("api", df_priority.v[i].nome, <<>>))
  /\ relatorio_completo' = Append(relatorio_completo, fallback_of(df_priority.v[i]))
  /\ outcomes' = Append(outcomes, [ok |-> FALSE, text |-> ""])
  /\ i' = i + 1
  /\ pc' = "gerar"
  /\ UNCHANGED <<clock, secrets, environ, api_key, acquired, excel_bytes, df,
                 halted_at, two_bd_ago, df_priority, calls, relatorio>>

\* Lines 208 and 214-218: the loop is over, the report is joined and shown.
Return ==
  /\ pc = "gerar"
  /\ i > Len(df_priority.v)
  /\ relatorio' = Some(join(relatorio_completo))
  /\ pc' = "end"
  /\ UNCHANGED <<clock, secrets, environ, api_key, acquired, excel_bytes, df,
                 errors, halted_at, two_bd_ago, df_priority, i, relatorio_completo,
                 calls, outcomes>>

Next ==
  \/ LoadApiKey
  \/ InitClient
  \/ AcquireInput
  \/ LoadExcel
  \/ Filter
  \/ Button
  \/ NextLead
  \/ CallSucceeds
  \/ CallFails
  \/ Return

Spec == Init /\ [][Next]_vars

\* ------------------------------------------- the filter over a wide calendar
\* The filter step alone, started from a loaded one-row table, with the clock
\* on every tick of NumWeeks weeks and the record anywhere in the window.
AllNow == {Day(d, k) : d \in 7..(7 * (NumWeeks + 1) - 1), k \in 0..(TicksPerDay - 1)}
AllStamps == {Day(d, k) : d \in 0..(7 * (NumWeeks + 1) - 1), k \in 0..(TicksPerDay - 1)}

InitBD ==
  /\ pc = "filter"
  /\ clock \in AllNow
  /\ secrets = "set"
  /\ environ = "unread"
  /\ api_key = "sk-secrets"
  /\ acquired = "bytes"
  /\ \E t \in AllStamps, r \in RegistroCells \ {NaN} :
       excel_bytes =
         Sheet(RequiredSet, <<Row(1, TsCell(t), StrCell(<<"A","n","a">>), r)>>)
  /\ df = try_load(excel_bytes).df
  /\ errors = <<>>
  /\ halted_at = ""
  /\ two_bd_ago = 0
  /\ df_priority = None
  /\ i = 0
  /\ relatorio_completo = <<>>
  /\ calls = <<>>
  /\ outcomes = <<>>
  /\ relatorio = None

SpecBD == InitBD /\ [][Filter]_vars

\* ------------------------------------------------------- terms of the claims
\* The keyword set of the priority filter.
KeywordSet ==
  { <<"r","e","p","i","q","u","e">>,
    <<"n","o","v","o"," ","r","e","p","i","q","u","e">>,
    <<"o","b","j","e","ç","ã","o">>,
    <<"o","b","j","e","ç","õ","e","s">>,
    <<"u","r","g","e","n","t","e">>,
    <<"f","e","c","h","a","r">>,
    <<"m","a","t","r","i","c","u","l","a">>,
    <<"i","n","t","e","r","e","s","s","a","d","o">>,
    <<"p","r","o","p","o","s","t","a">> }

Lowered(s) == [k \in 1..Len(s) |-> casefold(s[k])]

\* Keyword rule: the notes hold a keyword as a substring, whatever the case.
KeywordRule(notes) ==
  LET low == Lowered(notes)
  IN  \E kw \in KeywordSet :
        \E a \in 1..(Len(low) - Len(kw) + 1) : SubSeq(low, a, a + Len(kw) - 1) = kw

\* The day k business days before day d: calendar days are stepped back one
\* at a time and only Monday to Friday are counted.
RECURSIVE BusinessDaysBack(_, _)
BusinessDaysBack(d, k) ==
  IF k = 0 THEN d
  ELSE IF weekday(d - 1) \in 0..4 THEN BusinessDaysBack(d - 1, k - 1)
  ELSE BusinessDaysBack(d - 1, k)

\* now minus 2 business days, at now's time of day
Threshold(now) == Day(BusinessDaysBack(DayOf(now), 2), TickOf(now))

\* Staleness rule
StalenessRule(t, now) == t <= Threshold(now)

\* The filter step has run.
Filtered == df_priority.some
Occurrences(line) ==
  Cardinality({k \in 1..Len(df_priority.v) : df_priority.v[k].line = line})
Selected(line) == Occurrences(line) > 0

\* The load step has run on the bytes acquired.
LoadAttempted == acquired = "bytes" /\ pc # "load"
FullSheet == excel_bytes.kind = "xlsx" /\ excel_bytes.columns = RequiredSet
RawLines == 1..Len(excel_bytes.rows)
DfLines == {df[k].line : k \in 1..Len(df)}

\* ----------------------------------------------------------------- claims
\* C1: a row of the loaded table is in the priority set exactly once if its
\* notes match the keyword rule or its timestamp satisfies the staleness rule,
\* and not at all otherwise; the priority set holds rows of the table only.
C1_OrSemantics ==
  Filtered =>
    /\ \A k \in 1..Len(df) :
         Occurrences(df[k].line) =
           IF KeywordRule(df[k].registro.s) \/ StalenessRule(df[k].data.t, clock)
           THEN 1 ELSE 0
    /\ \A j \in 1..Len(df_priority.v) :
         \E k \in 1..Len(df) : df_priority.v[j] = [df[k] EXCEPT !.index = j - 1]

\* C1's case: one row matching both rules, selected, beside one matching
\* neither, left out.
C1_Witness ==
  /\ Filtered
  /\ \E k \in 1..Len(df) :
       /\ KeywordRule(df[k].registro.s)
       /\ StalenessRule(df[k].data.t, clock)
       /\ Selected(df[k].line)
  /\ \E k \in 1..Len(df) :
       /\ ~KeywordRule(df[k].registro.s)
       /\ ~StalenessRule(df[k].data.t, clock)
       /\ ~Selected(df[k].line)

\* C3: the threshold the filter uses is now minus 2 business days (Monday to
\* Friday), on every day of the week, and a record without a keyword is
\* selected exactly when its timestamp is at or before it.  With now on Monday
\* 2025-01-06 the threshold is Thursday 2025-01-02: a record of 2025-01-01 is
\* selected, a record of 2025-01-03 without a keyword is not.
C3_Staleness ==
  Filtered =>
    /\ two_bd_ago = Threshold(clock)
    /\ \A k \in 1..Len(df) :
         ~KeywordRule(df[k].registro.s) =>
           (Selected(df[k].line) <=> StalenessRule(df[k].data.t, clock))
    /\ strftime(clock) = <<2025, 1, 6>> =>
         /\ weekday(DayOf(clock)) = 0
         /\ strftime(two_bd_ago) = <<2025, 1, 2>>
         /\ weekday(DayOf(two_bd_ago)) = 3
         /\ \A k \in 1..Len(df) :
              /\ strftime(df[k].data.t) = <<2025, 1, 1>> => Selected(df[k].line)
              /\ (strftime(df[k].data.t) = <<2025, 1, 3>>
                    /\ ~KeywordRule(df[k].registro.s)) => ~Selected(df[k].line)

\* C3's case: the filter run on a Saturday, a record without a keyword dated
\* exactly at the threshold, selected.
C3_Witness ==
  /\ Filtered
  /\ weekday(DayOf(clock)) = 5
  /\ \E k \in 1..Len(df) :
       /\ ~KeywordRule(df[k].registro.s)
       /\ df[k].data.t = Threshold(clock)
       /\ Selected(df[k].line)

\* C5: the rows of the priority set are in the order of the loaded table:
\* their places in the table strictly increase along the priority set.
C5_OrderPreserved ==
  Filtered =>
    \A a, b \in 1..Len(df_priority.v) :
      a < b =>
        \E ka, kb \in 1..Len(df) :
          /\ df[ka].line = df_priority.v[a].line
          /\ df[kb].line = df_priority.v[b].line
          /\ ka < kb

\* C5's case: a row selected by date alone ahead of a row selected by keyword
\* alone, both in the priority set.
C5_Witness ==
  /\ Filtered
  /\ Len(df_priority.v) = 2
  /\ ~KeywordRule(df_priority.v[1].registro.s)
  /\ ~StalenessRule(df_priority.v[2].data.t, clock)

\* C8: after a load of a spreadsheet with its four columns, the load has not
\* failed, every row of the table has a valid timestamp, the table holds
\* exactly the rows whose timestamp cell was valid, and no other row is in
\* the priority set, in a request or in a section of the report.
C8_TimestampValid ==
  (LoadAttempted /\ FullSheet) =>
    /\ halted_at # "load"
    /\ \A k \in 1..Len(df) : df[k].data.kind = "ts"
    /\ DfLines = {l \in RawLines : excel_bytes.rows[l].data.kind = "ts"}
    /\ \A j \in 1..Len(df_priority.v) : df_priority.v[j].line \in DfLines
    /\ \A j \in 1..Len(calls) :
         \E l \in DfLines : calls[j].nome = excel_bytes.rows[l].nome
    /\ \A j \in 1..Len(relatorio_completo) :
         relatorio_completo[j].kind = "fallback" =>
           \E l \in DfLines : relatorio_completo[j].nome = excel_bytes.rows[l].nome

\* C8's case: a spreadsheet with an empty timestamp cell and a valid one, the
\* report produced.
C8_Witness ==
  /\ LoadAttempted /\ FullSheet
  /\ relatorio.some
  /\ \E l \in RawLines : excel_bytes.rows[l].data.kind = "NaN"
  /\ Len(df) = 1

\* C4: when the credential is in neither source (the key absent from the
\* secrets and from OPENAI_API_KEY, or no secrets file at all), the download
\* fails, the bytes are no spreadsheet or a required column is missing, the
\* run has halted in that section: the filter was never evaluated, no request
\* was sent and no report exists.
NothingDownstream ==
  /\ df_priority = None
  /\ calls = <<>>
  /\ relatorio_completo = <<>>
  /\ relatorio = None
\* the run halted in section `at`
HaltedAt(at) == pc \in {"stopped", "crashed"} /\ halted_at = at
C4_FatalHalts ==
  /\ ((secrets = "absent" /\ environ = "absent") \/ secrets = "no_file") =>
       HaltedAt("credentials") /\ acquired = "" /\ NothingDownstream
  /\ acquired = "fetch_failed" =>
       HaltedAt("acquire") /\ df = <<>> /\ NothingDownstream
  /\ (LoadAttempted /\ ~FullSheet) =>
       HaltedAt("load") /\ NothingDownstream

\* C4's case: a spreadsheet lacking only the lead-name column, the run
\* stopped by the required-columns check.
C4_Witness ==
  /\ LoadAttempted
  /\ excel_bytes.kind = "xlsx"
  /\ RequiredSet \ excel_bytes.columns = {"Nome do Atendido"}
  /\ pc = "stopped"

\* C6: a spreadsheet that parses but lacks required columns is reported by
\* the missing-columns error, which lists the absent columns.
C6_MissingColumnsReported ==
  (LoadAttempted /\ excel_bytes.kind = "xlsx" /\ excel_bytes.columns # RequiredSet) =>
    /\ errors # <<>>
    /\ errors[Len(errors)].kind = "missing_cols"
    /\ {errors[Len(errors)].cols[k] : k \in 1..Len(errors[Len(errors)].cols)}
         = RequiredSet \ excel_bytes.columns

\* C7: in the loaded table a row whose agent cell was empty has the sentinel
\* as agent name, a row whose notes cell was empty has empty notes, and
\* neither field holds a null or the text "nan".
C7_MissingNormalized ==
  (LoadAttempted /\ FullSheet) =>
    \A k \in 1..Len(df) :
      LET raw == excel_bytes.rows[df[k].line]
      IN  /\ raw.atendente.kind = "NaN" => df[k].atendente = StrCell(Sentinel)
          /\ raw.registro.kind = "NaN" => df[k].registro = StrCell(<<>>)
          /\ df[k].atendente.kind = "str" /\ df[k].atendente.s # <<"n","a","n">>
          /\ df[k].registro.kind = "str" /\ df[k].registro.s # <<"n","a","n">>

HasWord(s) == \E a \in 1..Len(s) : s[a] \notin Whitespace
\* the first maximal run of characters that are not whitespace
FirstWord(s) ==
  LET a == CHOOSE x \in 1..Len(s) :
             s[x] \notin Whitespace /\ \A y \in 1..(x - 1) : s[y] \in Whitespace
      b == CHOOSE x \in a..Len(s) :
             /\ \A y \in a..x : s[y] \notin Whitespace
             /\ x = Len(s) \/ s[x + 1] \in Whitespace
  IN  SubSeq(s, a, b)

\* C9: building a request never aborts gerar_relatorio, and the agent field of
\* the request for a lead is the first word of its agent name, or N/A (or the
\* first word of the sentinel) when the spreadsheet had no agent name.
C9_AgentToken ==
  /\ halted_at # "gerar_relatorio"
  /\ \A j \in 1..Len(calls) :
       LET raw == excel_bytes.rows[df_priority.v[j].line].atendente
       IN  /\ (raw.kind = "str" /\ HasWord(raw.s)) =>
                calls[j].atendente = FirstWord(raw.s)
           /\ raw.kind = "NaN" =>
                calls[j].atendente \in {NA, FirstWord(Sentinel)}

\* gerar_relatorio was called and is over
GerarEnded == (pc = "end" /\ i > 0) \/ halted_at = "gerar_relatorio"

\* C2: once gerar_relatorio is over the report has one section per priority
\* lead, in lead order: the fallback template of the lead (name, agent token
\* of its request, date, the two fixed texts) where its call failed, the
\* collaborator's text where it did not.
C2_FaultIsolation ==
  GerarEnded =>
    /\ relatorio.some
    /\ Len(relatorio.v) = Len(df_priority.v)
    /\ Len(outcomes) = Len(df_priority.v)
    /\ \A k \in 1..Len(relatorio.v) :
         IF outcomes[k].ok
         THEN relatorio.v[k].kind = "generated" /\ relatorio.v[k].text = outcomes[k].text
         ELSE /\ relatorio.v[k].kind = "fallback"
              /\ relatorio.v[k].nome = df_priority.v[k].nome
              /\ relatorio.v[k].atendente = calls[k].atendente
              /\ relatorio.v[k].data = strftime(df_priority.v[k].data.t)
              /\ relatorio.v[k].motivo = "Erro ao processar"
              /\ relatorio.v[k].sugestao = "Erro na geração"

\* C10: the requests are for the leads in lead order, one each, every one
\* answered before the next is sent, and once gerar_relatorio is over there
\* are as many requests as priority leads.
C10_OneCallPerLead ==
  /\ Len(calls) <= Len(df_priority.v)
  /\ \A j \in 1..Len(calls) : calls[j].nome = df_priority.v[j].nome
  /\ Len(calls) = Len(outcomes) + (IF pc = "awaiting" THEN 1 ELSE 0)
  /\ GerarEnded => Len(calls) = Len(df_priority.v)

====
